---------------------------- MODULE Spec2Model ----------------------------
(***************************************************************************)
(* Model of the cut-application pipeline of the 3D panel configurator:     *)
(*   - the solid generators createPanelGeometry,                           *)
(*     createCylinderGeometryForHole, createBoxGeometryForRectangularCut;  *)
(*   - the evaluator CSGManager.applyCuts, which folds an ordered list of  *)
(*     cuts into the panel by sequential boolean subtraction;              *)
(*   - the panel form of main.ts (validatePanelDimensions,                 *)
(*     updateThicknessOptions, updatePanelFromUI) and updatePanel3D, which *)
(*     replaces the displayed mesh by the result of applyCuts;             *)
(*   - the circular-cut modal (validateCircularCutParameters and the       *)
(*     handlers installed by initCircularCutModal), its preview scene and  *)
(*     the timer and the await of initModalScene;                          *)
(*   - the helpers of the view: grid.js and the grid controls,             *)
(*     axesHelper.js, and the controls objects of cameraManager.js.        *)
(*                                                                         *)
(* JavaScript values.  An object is a record whose DOMAIN holds exactly    *)
(* the properties that are present; an absent property reads as            *)
(* `undefined`.  Numbers are integers (millimetres, segment counts), and   *)
(* the not-a-number value is the reserved integer NaN, which is never      *)
(* compared with < or <= directly: every comparison the code makes goes    *)
(* through LeqZero / LessThan, which answer FALSE on NaN as IEEE-754 does. *)
(*                                                                         *)
(* Record constructors list their fields in the order in which the names   *)
(* first occur in this module, which is the order TLC keeps them in.       *)
(***************************************************************************)
EXTENDS Integers, Sequences, FiniteSets, TLC

\* ------------------------------------------------------------------ bounds
\* Numeric inputs of the generator calls range over MinNum..MaxNum and NaN.
MaxNum == 4
\* Longest cut list handed to applyCuts.
MaxCuts == 3

MinNum == 0 - 1
NaN == 0 - 9999
Nums == MinNum..MaxNum
JsNums == Nums \cup {NaN}

\* ------------------------------------------------- JavaScript primitives
\* x <= 0 on a JavaScript number (false when x is NaN).
LeqZero(x) == x # NaN /\ x <= 0
\* x < n on a JavaScript number (false when x is NaN).
LessThan(x, n) == x # NaN /\ x < n
\* x > 0 on a JavaScript number (false when x is NaN).
Positive(x) == x # NaN /\ x > 0
\* x > y on two JavaScript numbers (false when either is NaN).
GreaterThan(x, y) == x # NaN /\ y # NaN /\ x > y
\* The elements of an array.
Elements(array) == {array[i] : i \in DOMAIN array}
\* Property present on an object.
Has(obj, f) == f \in DOMAIN obj
\* Destructuring with a default: `const { f = d } = obj`.
Destructure(obj, f, d) == IF Has(obj, f) THEN obj[f] ELSE d
\* `v || 0` on a number: 0 and NaN are falsy.
OrZero(v) == IF v = NaN THEN 0 ELSE v
\* `undefined` where an object is expected (an absent `params`, `position`
\* or `rotation` property read from a cut).
Undefined == [jsUndefined |-> TRUE]
\* Property read `obj.f` of an object-valued property.
Read(obj, f) == IF Has(obj, f) THEN obj[f] ELSE Undefined
\* All objects whose properties are a subset of `fields`, valued in `vals`.
Objects(fields, vals) == UNION {[D -> vals] : D \in SUBSET fields}

\* ------------------------------------------------------ THREE geometries
\* new THREE.CylinderGeometry(radiusTop, radiusBottom, height, radialSegments):
\* bounding volumes are null until computed.  Math.floor(radialSegments) is
\* the identity on the integer segment counts of the model and on NaN.
CylinderGeometry(radiusTop, radiusBottom, height, radialSegments) ==
    [radiusTop |-> radiusTop, radiusBottom |-> radiusBottom,
     height |-> height, radialSegments |-> radialSegments,
     type |-> "CylinderGeometry",
     boundingBox |-> FALSE, boundingSphere |-> FALSE]

\* new THREE.BoxGeometry(width, height, depth): X, Y (up) and Z sizes.
BoxGeometry(width, height, depth) ==
    [height |-> height, type |-> "BoxGeometry",
     boundingBox |-> FALSE, boundingSphere |-> FALSE,
     width |-> width, depth |-> depth]

\* geometry.computeBoundingBox(); geometry.computeBoundingSphere();
ComputeBounds(g) == [g EXCEPT !.boundingBox = TRUE, !.boundingSphere = TRUE]

\* A generator's outcome: the geometry it returns and the console warnings
\* it emitted, or the exception it raised.
Returned(g, warnings) == [warnings |-> warnings, threw |-> FALSE, geometry |-> g]
Threw == [warnings |-> <<>>, threw |-> TRUE]


\* ------------------------------------------------------ program constants
\* Destructuring defaults of createCylinderGeometryForHole.
DefaultRadius == 10
DefaultDepth == 20
DefaultSegments == 32
\* Destructuring defaults of createBoxGeometryForRectangularCut.
DefaultCutLength == 50
DefaultCutWidth == 30
DefaultCutDepth == 20
\* Destructuring defaults of createPanelGeometry.
DefaultPanelLength == 200
DefaultPanelWidth == 100
DefaultPanelThickness == 18
\* Smallest accepted number of radial segments.
MinSegments == 3

\* ------------------------------------------- createCylinderGeometryForHole
\* Mutant: the radius fallback keeps the caller's depth and segments.
CylinderRadiusFallback_KeepsOthers(radius, depth, segments) ==
    Returned(CylinderGeometry(10, 10, depth, segments),
             <<"Le rayon doit etre positif">>)

\* Branch `if (radius <= 0)`: the literal default cylinder.
CylinderRadiusFallback(radius, depth, segments) ==
    Returned(CylinderGeometry(10, 10, 20, 32),
             <<"Le rayon doit etre positif">>)

\* Mutant: the depth fallback resets the segment count to 32.
CylinderDepthFallback_ResetsSegments(radius, depth, segments) ==
    Returned(CylinderGeometry(radius, radius, 20, 32),
             <<"La profondeur doit etre positive">>)

\* Branch `if (depth <= 0)`: given radius, literal depth 20, and the
\* destructured `segments` variable as it stands.
CylinderDepthFallback(radius, depth, segments) ==
    Returned(CylinderGeometry(radius, radius, 20, segments),
             <<"La profondeur doit etre positive">>)

\* Mutant: the segments fallback clamps to the minimum instead of 32.
CylinderSegmentsFallback_Clamps(radius, depth, segments) ==
    Returned(CylinderGeometry(radius, radius, depth, MinSegments),
             <<"Le nombre de segments doit etre au minimum 3">>)

\* Branch `if (segments < 3)`: given radius and depth, literal 32 segments.
CylinderSegmentsFallback(radius, depth, segments) ==
    Returned(CylinderGeometry(radius, radius, depth, 32),
             <<"Le nombre de segments doit etre au minimum 3">>)

\* Normal path: straight cylinder, bounding volumes computed.
CylinderNormal(radius, depth, segments) ==
    Returned(ComputeBounds(CylinderGeometry(radius, radius, depth, segments)),
             <<>>)

\* The validation cascade on the destructured values.
CylinderValidated(radius, depth, segments) ==
    IF LeqZero(radius) THEN CylinderRadiusFallback(radius, depth, segments)
    ELSE IF LeqZero(depth) THEN CylinderDepthFallback(radius, depth, segments)
    ELSE IF LessThan(segments, MinSegments)
         THEN CylinderSegmentsFallback(radius, depth, segments)
    ELSE CylinderNormal(radius, depth, segments)

\* createCylinderGeometryForHole(params): destructure with defaults, then
\* validate.  Destructuring `undefined` raises a TypeError.
createCylinderGeometryForHole(params) ==
    IF params = Undefined THEN Threw ELSE
    CylinderValidated(Destructure(params, "radius", DefaultRadius),
                      Destructure(params, "depth", DefaultDepth),
                      Destructure(params, "segments", DefaultSegments))

\* -------------------------------------- createBoxGeometryForRectangularCut
\* Mutant: the fallback box in the order of the defaults (50, 30, 20).
RectFallback_DefaultsOrder(length, width, depth) ==
    Returned(BoxGeometry(50, 30, 20),
             <<"Les dimensions de la decoupe doivent etre positives">>)

\* Branch `if (length <= 0 || width <= 0 || depth <= 0)`: the literal box.
RectFallback(length, width, depth) ==
    Returned(BoxGeometry(50, 20, 30),
             <<"Les dimensions de la decoupe doivent etre positives">>)

\* Mutant: width and depth passed in the order of the parameters.
RectNormal_ArgsInParamOrder(length, width, depth) ==
    Returned(ComputeBounds(BoxGeometry(length, width, depth)), <<>>)

\* Normal path: BoxGeometry(length, depth, width), bounding volumes computed.
RectNormal(length, width, depth) ==
    Returned(ComputeBounds(BoxGeometry(length, depth, width)), <<>>)

RectValidated(length, width, depth) ==
    IF LeqZero(length) \/ LeqZero(width) \/ LeqZero(depth)
    THEN RectFallback(length, width, depth)
    ELSE RectNormal(length, width, depth)

createBoxGeometryForRectangularCut(params) ==
    IF params = Undefined THEN Threw ELSE
    RectValidated(Destructure(params, "length", DefaultCutLength),
                  Destructure(params, "width", DefaultCutWidth),
                  Destructure(params, "depth", DefaultCutDepth))

\* ----------------------------------------------------- createPanelGeometry
\* Mutant: the fallback box in the order of the defaults (200, 100, 18).
PanelFallback_DefaultsOrder(length, width, thickness) ==
    Returned(BoxGeometry(200, 100, 18),
             <<"Les dimensions du panneau doivent etre positives">>)

\* Branch `if (length <= 0 || width <= 0 || thickness <= 0)`.
PanelFallback(length, width, thickness) ==
    Returned(BoxGeometry(200, 18, 100),
             <<"Les dimensions du panneau doivent etre positives">>)

\* Mutant: width and thickness passed in the order of the parameters.
PanelNormal_ArgsInParamOrder(length, width, thickness) ==
    Returned(ComputeBounds(BoxGeometry(length, width, thickness)), <<>>)

\* Normal path: BoxGeometry(length, thickness, width), bounds computed.
PanelNormal(length, width, thickness) ==
    Returned(ComputeBounds(BoxGeometry(length, thickness, width)), <<>>)

PanelValidated(length, width, thickness) ==
    IF LeqZero(length) \/ LeqZero(width) \/ LeqZero(thickness)
    THEN PanelFallback(length, width, thickness)
    ELSE PanelNormal(length, width, thickness)

createPanelGeometry(params) ==
    IF params = Undefined THEN Threw ELSE
    PanelValidated(Destructure(params, "length", DefaultPanelLength),
                   Destructure(params, "width", DefaultPanelWidth),
                   Destructure(params, "thickness", DefaultPanelThickness))

\* -------------------------------------------------- bounding box of a box
\* The eight corner vertices of a BoxGeometry, in half-millimetres (the box
\* is centred on the origin, so a side of size s spans -s/2 .. s/2).
BoxVertices(g) ==
    {<<sx * g.width, sy * g.height, sz * g.depth>> :
        sx \in {0 - 1, 1}, sy \in {0 - 1, 1}, sz \in {0 - 1, 1}}

SetMin(S) == CHOOSE m \in S : \A x \in S : m <= x
SetMax(S) == CHOOSE m \in S : \A x \in S : x <= m

\* Box3.setFromBufferAttribute: component-wise minimum and maximum of the
\* vertices; the extent along axis k (1 = X, 2 = Y, 3 = Z) in millimetres.
BoundingBoxExtent(g, k) ==
    LET coords == {v[k] : v \in BoxVertices(g)}
    IN (SetMax(coords) - SetMin(coords)) \div 2


\* ------------------------------------------------------------- materials
\* The material table: id -> colour (24-bit RGB).
materials ==
    [pine |-> 14596231, oak |-> 9127187, birch |-> 16113331,
     mdf |-> 13808780, plywood |-> 14329120, melamine |-> 16777215]

\* The table is an object literal, so a lookup by a name that is not an own
\* property goes on to Object.prototype: these names resolve to inherited
\* members (functions, the prototype object), which are truthy and have no
\* `color` property.
ObjectPrototype ==
    {"constructor", "toString", "toLocaleString", "valueOf", "hasOwnProperty",
     "isPrototypeOf", "propertyIsEnumerable", "__proto__"}

\* The colour of `new THREE.MeshLambertMaterial({ color: undefined, ... })`:
\* an undefined parameter is skipped, the material keeps its white diffuse.
DefaultMaterialColor == 16777215

\* `materials[id] || materials.pine`, then `.color` handed to the material.
SelectedMaterialColor(id) ==
    IF id \in DOMAIN materials THEN materials[id]
    ELSE IF id \in ObjectPrototype THEN DefaultMaterialColor
    ELSE materials.pine

\* ------------------------------------------------- validation of the panel
\* The validation constraints: the ranges of length and width, and the
\* thicknesses available for each material.
constraints ==
    [panel |->
       [width |-> [min |-> 10, max |-> 1250],
        length |-> [min |-> 10, max |-> 2500],
        thickness |->
          [pine |-> <<5, 10, 15, 18, 20>>, oak |-> <<10, 15, 18, 20, 25>>,
           birch |-> <<5, 10, 15, 18, 20>>, mdf |-> <<5, 10, 15, 18, 20, 25>>,
           plywood |-> <<5, 10, 15, 18, 20>>,
           melamine |-> <<10, 15, 18, 20, 25>>]]]

\* `constraints.panel.thickness[material] || []` for a material that is an
\* entry of the table or resolves to nothing.
AvailableThicknesses(material) ==
    IF material \in DOMAIN constraints.panel.thickness
    THEN constraints.panel.thickness[material]
    ELSE <<>>

\* `x < range.min || x > range.max` on a JavaScript number: false on NaN.
OutOfRange(x, range) == LessThan(x, range.min) \/ GreaterThan(x, range.max)

\* The outcome of validatePanelDimensions: its result object, or the
\* exception it raised.
Validated(errors) ==
    [threw |-> FALSE, errors |-> errors, isValid |-> errors = <<>>]
ValidationThrew == [threw |-> TRUE]

\* validatePanelDimensions(length, width, thickness, material).  A material
\* name inherited from Object.prototype resolves to a truthy value that is
\* no array, and calling its `includes` raises a TypeError.
validatePanelDimensions(length, width, thickness, material) ==
    IF material \in ObjectPrototype THEN ValidationThrew ELSE
    Validated(
        (IF OutOfRange(length, constraints.panel.length)
         THEN <<"La longueur doit etre entre 10 et 2500mm">> ELSE <<>>)
     \o (IF OutOfRange(width, constraints.panel.width)
         THEN <<"La largeur doit etre entre 10 et 1250mm">> ELSE <<>>)
     \o (IF thickness \notin Elements(AvailableThicknesses(material))
         THEN <<"Epaisseur non disponible">> ELSE <<>>))

\* ------------------------------------------------ inputs of the evaluator
\* Material ids of the inputs: two entries of the table, an unknown id, and
\* an id that is no entry of the table but a member every object inherits.
MaterialIds == {"pine", "oak", "teak", "constructor"}

\* Panel records handed to applyCuts: the default configuration's panel and
\* variations of it (a non-positive length, an absent thickness, other,
\* unknown and absent material ids).
PanelChoices ==
    {[width |-> 500, length |-> l, thickness |-> 20, material |-> m] :
        l \in {0, 1000}, m \in MaterialIds}
    \cup {[width |-> 500, length |-> 1000, material |-> "pine"],
          [width |-> 500, length |-> 1000, thickness |-> 20]}

\* Cut entries: recognized kinds with valid and invalid params, with full,
\* partial and absent position/rotation, an entry of an unknown type, an
\* entry with no `type` property at all, and a circular entry without params.
CutChoices ==
    { [type |-> "circular", params |-> [depth |-> 20, radius |-> 25],
       position |-> [x |-> 0, y |-> 0, z |-> 0]],
      [type |-> "rectangular",
       params |-> [width |-> 50, depth |-> 20, length |-> 100],
       position |-> [x |-> 200], rotation |-> [y |-> 1]],
      [type |-> "circular", params |-> [depth |-> 5, radius |-> 0, segments |-> 8]],
      [type |-> "rectangular",
       params |-> [width |-> 0, depth |-> 5, length |-> 100],
       rotation |-> [x |-> 1, y |-> 2, z |-> 3]],
      [type |-> "unknown_kind"],
      [kind |-> "unknown_kind"],
      [type |-> "circular"] }

\* Ordered cut lists of at most MaxCuts entries.
CutLists == UNION {[1..n -> CutChoices] : n \in 0..MaxCuts}

\* --------------------------------------------------------------- state
VARIABLES
    config,       \* the configuration record applyCuts was called with
    pc,           \* position in applyCuts: "idle", "loop", "done", "failed"
    cutIndex,     \* index in config.cuts of the entry the loop handles next
    mainBrush,    \* the accumulator (the returned mesh once pc = "done")
    evaluations,  \* the evaluator.evaluate calls made so far, in order
    console,      \* console.warn messages of the current evaluation
    normalsCalls, \* computeVertexNormals calls of the current evaluation
    genCall       \* the last direct call of a generator: input and outcome

\* The state of the application (main.ts and the circular-cut modal).
VARIABLES
    appConfig,        \* main.ts `config`, the stored configuration
    inputs,           \* the panel form: values of the length and width
                      \* fields and of the thickness and material selects,
                      \* as parseFloat / parseInt read them (NaN when empty)
    thicknessOptions, \* the option values of the thickness select
    event,            \* the event being handled, or handled last
    validation,       \* what updatePanelFromUI validated last, and the answer
    scene,            \* the panel meshes that are children of the scene
    currentPanelMesh, \* main.ts `currentPanelMesh`: a mesh, or Null
    meshes,           \* the meshes still referenced: the mesh object and
                      \* whether its geometry was disposed
    modalActive,      \* the circular-cut modal has the class `active`
    cutInputs         \* the diameter and depth fields of the modal, as
                      \* parseFloat reads them, in tenths of a millimetre

\* The helpers of the view (grid.js, axesHelper.js, cameraManager.js,
\* viewCube.js), the scene of the modal, and the last returned evaluation.
VARIABLES
    gridConfig,    \* main.ts `config.grid`
    gridHelper,    \* grid.js `gridHelper`: Null, or the scene it is a child of
    axesHelper,    \* axesHelper.js `axesHelper`: Null, or the scene that this
                   \* object is a child of
    axisLabels,    \* axesHelper.js `xLabelObj`, `yLabelObj`, `zLabelObj` (set
                   \* and cleared together): Null, or the scene they are in
    sceneChildren, \* how many grids, axes helpers and sets of axis labels
                   \* are children of the main scene
    modalView,     \* circularCutModal.js `modalScene`, `modalCamera`,
                   \* `modalRenderer`, `modalControls`, `modalCutMesh`:
                   \* TRUE when the variable holds an object, FALSE when null
    timers,        \* setTimeout callbacks of the open button not yet run
    awaiting,      \* calls of initModalScene suspended at their `await`
    renderers,     \* WebGLRenderers made by initModalScene and not disposed
    controls,      \* main.ts `controls`: an OrbitControls object, or Null
    cameraManager, \* cameraManager.js `camera` and `controls`
    mainControls,  \* viewCube.js `mainControls`
    orbitControls, \* the OrbitControls objects made by cameraManager.js
    returned       \* the last evaluation that returned: its configuration
                   \* and the solid of its result

helperVars == <<gridConfig, gridHelper, axesHelper, axisLabels, sceneChildren>>
modalVars == <<modalView, timers, awaiting, renderers>>
cameraVars == <<controls, cameraManager, mainControls, orbitControls>>
viewVars == <<helperVars, modalVars, cameraVars, returned>>

appVars == <<appConfig, inputs, thicknessOptions, event, validation, scene,
             currentPanelMesh, meshes, modalActive, cutInputs, viewVars>>

vars == <<config, pc, cutIndex, mainBrush, evaluations, console,
          normalsCalls, genCall, appVars>>

\* `undefined` printed in a template string; the type of an entry.
CutType(cut) == IF Has(cut, "type") THEN cut.type ELSE "undefined"

\* The switch of the loop: is the entry's type one of the two cases?
Recognized(cut) == CutType(cut) \in {"circular", "rectangular"}

\* The case bodies of the switch: the generator for the entry's type.
CutGeometry(cut) ==
    IF CutType(cut) = "circular"
    THEN createCylinderGeometryForHole(Read(cut, "params"))
    ELSE createBoxGeometryForRectangularCut(Read(cut, "params"))

\* `new Brush(geometry)` followed by position.set / rotation.set when the
\* cut has the record, each axis read as `v || 0`, and updateMatrixWorld().
Axis(rec, a) == IF Has(rec, a) THEN OrZero(rec[a]) ELSE 0

\* Mutant: the brush is still at the origin when it is handed to evaluate
\* (position and rotation set only after the subtraction).
Placement_AfterSubtraction(cut, f) == <<0, 0, 0>>

Placement(cut, f) ==
    IF Has(cut, f)
    THEN <<Axis(cut[f], "x"), Axis(cut[f], "y"), Axis(cut[f], "z")>>
    ELSE <<0, 0, 0>>
CutBrush(cut, geometry) ==
    [geometry |-> geometry,
     position |-> Placement(cut, "position"),
     rotation |-> Placement(cut, "rotation")]

\* `new Brush(panelGeometry, panelMaterial)`.
PanelBrush(geometry, color) ==
    [geometry |-> geometry, color |-> color,
     castShadow |-> FALSE, receiveShadow |-> FALSE]

\* The panel geometry that a chain of differences started from.
RECURSIVE PanelOf(_)
PanelOf(geometry) ==
    IF geometry.type = "Subtraction" THEN PanelOf(geometry.a) ELSE geometry

\* Mutant: every cut is subtracted from the raw panel instead of from the
\* accumulator, so that only the last cut shows in the result.
Subtraction_OnRawPanel(a, b) ==
    [geometry |-> [type |-> "Subtraction", a |-> PanelOf(a.geometry), b |-> b],
     color |-> a.color, castShadow |-> FALSE, receiveShadow |-> FALSE]

\* evaluator.evaluate(a, b, SUBTRACTION) when it returns: a new brush whose
\* geometry is the difference of the two operands.
Subtraction(a, b) ==
    [geometry |-> [type |-> "Subtraction", a |-> a.geometry, b |-> b],
     color |-> a.color, castShadow |-> FALSE, receiveShadow |-> FALSE]

\* Points of space at which solids are compared, in millimetres: on and off
\* the axis of the panel, at mid-height and near the top face.
SamplePoints ==
    {<<x, y, z>> : x \in {0 - 300, 0 - 200, 0, 20, 200, 300},
                   y \in {0, 8}, z \in {0, 100}}

Abs(n) == IF n < 0 THEN 0 - n ELSE n

\* Is point p in the solid of a geometry centred on `at` and not rotated?
\* A box spans half its size each way on each axis; a cylinder has its axis
\* along Y.
Inside(geometry, at, p) ==
    LET dx == p[1] - at[1]
        dy == p[2] - at[2]
        dz == p[3] - at[3]
    IN IF geometry.type = "BoxGeometry"
       THEN /\ 2 * Abs(dx) <= geometry.width
            /\ 2 * Abs(dy) <= geometry.height
            /\ 2 * Abs(dz) <= geometry.depth
       ELSE /\ dx * dx + dz * dz <= geometry.radiusTop * geometry.radiusTop
            /\ 2 * Abs(dy) <= geometry.height

\* The solid of a geometry, as the sample points inside it: those inside the
\* panel's box, and for a difference those of its first operand that are
\* not inside the brush subtracted.
RECURSIVE Solid(_)
Solid(geometry) ==
    IF geometry.type = "Subtraction"
    THEN Solid(geometry.a)
         \ {p \in SamplePoints :
               Inside(geometry.b.geometry, geometry.b.position, p)}
    ELSE {p \in SamplePoints : Inside(geometry, <<0, 0, 0>>, p)}

\* The size of an unrotated brush along the three axes.
Extent(brush) ==
    IF brush.geometry.type = "BoxGeometry"
    THEN <<brush.geometry.width, brush.geometry.height, brush.geometry.depth>>
    ELSE <<2 * brush.geometry.radiusTop, brush.geometry.height,
           2 * brush.geometry.radiusTop>>

\* Two unrotated brushes overlap when their boxes do on each axis.
Overlapping(b1, b2) ==
    \A i \in 1..3 :
        2 * Abs(b1.position[i] - b2.position[i]) < Extent(b1)[i] + Extent(b2)[i]

NoBrush == [geometry |-> [type |-> "none"], color |-> 0,
            castShadow |-> FALSE, receiveShadow |-> FALSE]
NoCall == [fn |-> "none"]
defaultConfig ==
    [panel |-> [width |-> 500, length |-> 1000, thickness |-> 20,
                material |-> "pine"],
     cuts |-> <<>>]

\* `null`, where a mesh is expected.
Null == 0

\* The panel form as index.html declares it: length 1000, width 500, the
\* first option of the material select, and a thickness select without
\* options (its value reads as NaN).
InitialInputs ==
    [width |-> 500, length |-> 1000, thickness |-> NaN, material |-> "pine"]

\* The diameter (50) and depth (18) fields of the modal as index.html
\* declares them, in tenths of a millimetre.
InitialCutInputs == [depth |-> 180, diameter |-> 500]

\* `null`, where an object of a scene is expected; the other values of such
\* a reference name the scene that the object is a child of: the main scene,
\* the scene that `modalScene` holds, or a modal scene that was let go.
NoObject == "null"

\* The `grid` record of the default configuration.
defaultGridConfig ==
    [show |-> FALSE, sizeX |-> 10, sizeZ |-> 10, autoSize |-> TRUE]

\* The module-level variables of circularCutModal.js, all null.
NoModalView ==
    [modalScene |-> FALSE, modalCamera |-> FALSE, modalRenderer |-> FALSE,
     modalControls |-> FALSE, modalCutMesh |-> FALSE]

\* The module-level declarations of grid.js, axesHelper.js, cameraManager.js,
\* viewCube.js and circularCutModal.js, and an empty main scene.
InitView ==
    /\ gridConfig = defaultGridConfig
    /\ gridHelper = NoObject
    /\ axesHelper = NoObject
    /\ axisLabels = NoObject
    /\ sceneChildren = [grids |-> 0, axes |-> 0, labels |-> 0]
    /\ modalView = NoModalView
    /\ timers = 0
    /\ awaiting = 0
    /\ renderers = 0
    /\ controls = Null
    /\ cameraManager = [controls |-> Null, camera |-> FALSE]
    /\ mainControls = Null
    /\ orbitControls = <<>>
    /\ returned = NoCall

\* The application before init() has run: the module-level declarations of
\* main.ts (`config = { ...defaultConfig }`, `currentPanelMesh = null`) and
\* the document as loaded.
InitApplication ==
    /\ appConfig = defaultConfig
    /\ inputs = InitialInputs
    /\ thicknessOptions = {}
    /\ event = "load"
    /\ validation = NoCall
    /\ scene = {}
    /\ currentPanelMesh = Null
    /\ meshes = <<>>
    /\ modalActive = FALSE
    /\ cutInputs = InitialCutInputs

Init ==
    /\ InitApplication
    /\ InitView
    /\ config = defaultConfig
    /\ pc = "idle"
    /\ cutIndex = 1
    /\ mainBrush = NoBrush
    /\ evaluations = <<>>
    /\ console = <<>>
    /\ normalsCalls = 0
    /\ genCall = NoCall


\* ------------------------------------------------- CSGManager.applyCuts
CurrentCut == config.cuts[cutIndex]
InLoopBody == pc = "loop" /\ cutIndex <= Len(config.cuts)

\* Mutant: the panel solid is built from the default configuration's panel
\* instead of the panel passed in.
ApplyCutsBegin_DefaultPanel ==
    /\ pc = "idle"
    /\ \E panel \in PanelChoices, cuts \in CutLists :
        LET made == createPanelGeometry(defaultConfig.panel)
            id == IF Has(panel, "material") THEN panel.material ELSE "undefined"
        IN /\ config' = [panel |-> panel, cuts |-> cuts]
           /\ mainBrush' = PanelBrush(made.geometry, SelectedMaterialColor(id))
           /\ console' = made.warnings
    /\ pc' = "loop"
    /\ cutIndex' = 1
    /\ evaluations' = <<>>
    /\ normalsCalls' = 0
    /\ UNCHANGED <<genCall, appVars>>

\* Entry of applyCuts up to the `for`: panel geometry, material, mainBrush.
ApplyCutsBegin ==
    /\ pc = "idle"
    /\ \E panel \in PanelChoices, cuts \in CutLists :
        LET made == createPanelGeometry(panel)
            id == IF Has(panel, "material") THEN panel.material ELSE "undefined"
        IN /\ config' = [panel |-> panel, cuts |-> cuts]
           /\ mainBrush' = PanelBrush(made.geometry, SelectedMaterialColor(id))
           /\ console' = made.warnings
    /\ pc' = "loop"
    /\ cutIndex' = 1
    /\ evaluations' = <<>>
    /\ normalsCalls' = 0
    /\ UNCHANGED <<genCall, appVars>>

\* Mutant: `break` in place of `continue`: the loop is left.
SkipUnrecognized_Breaks ==
    /\ InLoopBody
    /\ ~Recognized(CurrentCut)
    /\ console' = Append(console,
                         "Type de decoupe non reconnu: " \o CutType(CurrentCut))
    /\ cutIndex' = Len(config.cuts) + 1
    /\ UNCHANGED <<config, pc, mainBrush, evaluations, normalsCalls, genCall, appVars>>

\* Mutant: no `continue`: control falls out of the switch and the undefined
\* cutGeometry is wrapped in a brush and subtracted.
SkipUnrecognized_FallsThrough ==
    /\ InLoopBody
    /\ ~Recognized(CurrentCut)
    /\ console' = Append(console,
                         "Type de decoupe non reconnu: " \o CutType(CurrentCut))
    /\ LET cutBrush == CutBrush(CurrentCut, [type |-> "none"])
       IN /\ evaluations' = Append(evaluations,
                  [a |-> mainBrush, b |-> cutBrush, index |-> cutIndex])
          /\ mainBrush' = Subtraction(mainBrush, cutBrush)
    /\ cutIndex' = cutIndex + 1
    /\ UNCHANGED <<config, pc, normalsCalls, genCall, appVars>>

\* Mutant: the unrecognized entry is spliced out of the caller's list.
SkipUnrecognized_Splices ==
    /\ InLoopBody
    /\ ~Recognized(CurrentCut)
    /\ console' = Append(console,
                         "Type de decoupe non reconnu: " \o CutType(CurrentCut))
    /\ config' = [config EXCEPT !.cuts =
                     SubSeq(config.cuts, 1, cutIndex - 1)
                     \o SubSeq(config.cuts, cutIndex + 1, Len(config.cuts))]
    /\ UNCHANGED <<cutIndex, pc, mainBrush, evaluations, normalsCalls, genCall, appVars>>

\* One iteration, `default:` case: warn and `continue`.
SkipUnrecognized ==
    /\ InLoopBody
    /\ ~Recognized(CurrentCut)
    /\ console' = Append(console,
                         "Type de decoupe non reconnu: " \o CutType(CurrentCut))
    /\ cutIndex' = cutIndex + 1
    /\ UNCHANGED <<config, pc, mainBrush, evaluations, normalsCalls, genCall, appVars>>

\* Mutant: the normals are recomputed after every subtraction.
SubtractCut_RecomputesNormals ==
    /\ InLoopBody
    /\ Recognized(CurrentCut)
    /\ LET made == CutGeometry(CurrentCut)
       IN /\ ~made.threw
          /\ LET cutBrush == CutBrush(CurrentCut, made.geometry)
             IN /\ evaluations' = Append(evaluations,
                        [a |-> mainBrush, b |-> cutBrush, index |-> cutIndex])
                /\ mainBrush' = Subtraction(mainBrush, cutBrush)
          /\ console' = console \o made.warnings
    /\ cutIndex' = cutIndex + 1
    /\ normalsCalls' = normalsCalls + 1
    /\ UNCHANGED <<config, pc, genCall, appVars>>

\* One iteration, recognized case, evaluate returns: the accumulator becomes
\* the difference.
SubtractCut ==
    /\ InLoopBody
    /\ Recognized(CurrentCut)
    /\ LET made == CutGeometry(CurrentCut)
       IN /\ ~made.threw
          /\ LET cutBrush == CutBrush(CurrentCut, made.geometry)
             IN /\ evaluations' = Append(evaluations,
                        [a |-> mainBrush, b |-> cutBrush, index |-> cutIndex])
                /\ mainBrush' = Subtraction(mainBrush, cutBrush)
          /\ console' = console \o made.warnings
    /\ cutIndex' = cutIndex + 1
    /\ UNCHANGED <<config, pc, normalsCalls, genCall, appVars>>

\* One iteration, recognized case, evaluate throws (the boolean primitive
\* rejects its operands): the exception leaves applyCuts.
SubtractThrows ==
    /\ InLoopBody
    /\ Recognized(CurrentCut)
    /\ LET made == CutGeometry(CurrentCut)
       IN /\ ~made.threw
          /\ evaluations' = Append(evaluations,
                 [a |-> mainBrush, b |-> CutBrush(CurrentCut, made.geometry),
                  index |-> cutIndex])
          /\ console' = console \o made.warnings
    /\ pc' = "failed"
    /\ UNCHANGED <<config, cutIndex, mainBrush, normalsCalls, genCall, appVars>>

\* One iteration, recognized case, the generator throws (destructuring an
\* absent params record): the exception leaves applyCuts.
GeneratorThrows ==
    /\ InLoopBody
    /\ Recognized(CurrentCut)
    /\ CutGeometry(CurrentCut).threw
    /\ pc' = "failed"
    /\ UNCHANGED <<config, cutIndex, mainBrush, evaluations, console,
                   normalsCalls, genCall, appVars>>

\* After the loop: computeVertexNormals, shadow flags, return.
ApplyCutsReturn ==
    /\ pc = "loop"
    /\ cutIndex > Len(config.cuts)
    /\ normalsCalls' = normalsCalls + 1
    /\ mainBrush' = [mainBrush EXCEPT !.castShadow = TRUE,
                                      !.receiveShadow = TRUE]
    /\ pc' = "done"
    /\ UNCHANGED <<config, cutIndex, evaluations, console, genCall, appVars>>

\* The call is over (the mesh was returned, or the exception propagated):
\* the locals of applyCuts are gone, and the next call starts afresh.
ApplyCutsExit ==
    /\ pc \in {"done", "failed"}
    /\ config' = defaultConfig
    /\ pc' = "idle"
    /\ cutIndex' = 1
    /\ mainBrush' = NoBrush
    /\ evaluations' = <<>>
    /\ console' = <<>>
    /\ normalsCalls' = 0
    /\ UNCHANGED <<genCall, appVars>>

Next ==
    \/ ApplyCutsBegin
    \/ SkipUnrecognized
    \/ SubtractCut
    \/ SubtractThrows
    \/ GeneratorThrows
    \/ ApplyCutsReturn
    \/ ApplyCutsExit

Spec == Init /\ [][Next]_vars

\* --------------------------------------- direct calls of the generators
\* Argument records: every subset of the fields present, every field valued
\* in JsNums, and the call with no record at all.
Args(fields) == Objects(fields, JsNums) \cup {Undefined}

\* The variables of applyCuts, which a direct generator call leaves alone.
evalVars == <<config, pc, cutIndex, mainBrush, evaluations, console,
              normalsCalls>>

\* The record of a call: its argument, the generator, and its outcome.
Call(params, fn, result) == [params |-> params, fn |-> fn, result |-> result]

CallCylinder ==
    /\ genCall = NoCall
    /\ \E params \in Args({"radius", "depth", "segments"}) :
         genCall' = Call(params, "createCylinderGeometryForHole",
                         createCylinderGeometryForHole(params))
    /\ UNCHANGED <<evalVars, appVars>>

CallRect ==
    /\ genCall = NoCall
    /\ \E params \in Args({"length", "width", "depth"}) :
         genCall' = Call(params, "createBoxGeometryForRectangularCut",
                         createBoxGeometryForRectangularCut(params))
    /\ UNCHANGED <<evalVars, appVars>>

CallPanel ==
    /\ genCall = NoCall
    /\ \E params \in Args({"length", "width", "thickness"}) :
         genCall' = Call(params, "createPanelGeometry",
                         createPanelGeometry(params))
    /\ UNCHANGED <<evalVars, appVars>>

\* Arguments of the direct calls of validatePanelDimensions: the ends of the
\* two ranges and their neighbours, thicknesses in and out of the sets, and
\* NaN (what parseFloat and parseInt give for an empty field).
ValidationLengths == {NaN, 9, 10, 2500, 2501}
ValidationWidths == {NaN, 9, 10, 1250, 1251}
ValidationThicknesses == {NaN, 5, 7, 18, 25}

CallValidate ==
    /\ genCall = NoCall
    /\ \E length \in ValidationLengths, width \in ValidationWidths,
          thickness \in ValidationThicknesses, material \in MaterialIds :
         genCall' = Call([width |-> width, length |-> length,
                          thickness |-> thickness, material |-> material],
                         "validatePanelDimensions",
                         validatePanelDimensions(length, width, thickness,
                                                 material))
    /\ UNCHANGED <<evalVars, appVars>>

\* The caller is done with the returned value.
CallDone ==
    /\ genCall # NoCall
    /\ genCall' = NoCall
    /\ UNCHANGED <<evalVars, appVars>>

NextGen == CallCylinder \/ CallRect \/ CallPanel \/ CallValidate \/ CallDone

SpecGen == Init /\ [][NextGen]_vars


\* ====================================================================
\* main.ts: the panel form, its handlers and updatePanel3D
\* ====================================================================
\* What a user types into the length and width fields: values inside and
\* outside the ranges, and nothing at all (NaN).
LengthInputs == {NaN, 5, 1000}
WidthInputs == {500, 2000}
\* The options of the material select that the user picks from, and the
\* options of the thickness select that the user picks (when on offer).
MaterialOptions == {"pine", "oak"}
ThicknessPicks == {5, 20, 25}

\* Longest cut list of a configuration handed to window.updatePanel3D.
MaxScriptCuts == 1
\* Most renderers of the modal that are not disposed at one time (which
\* also bounds the calls of initModalScene that are pending or suspended),
\* and most axes helpers in the main scene: the modal is not opened, and
\* the panel not rebuilt, when that would go beyond.
MaxRenderers == 2
MaxAxes == 2
\* Its entries: a valid circular cut, an entry of an unknown type, and a
\* circular entry without params.
ScriptCutChoices ==
    { [type |-> "circular", params |-> [depth |-> 20, radius |-> 25],
       position |-> [x |-> 0, y |-> 0, z |-> 0]],
      [type |-> "unknown_kind"],
      [type |-> "circular"] }
ScriptCutLists == UNION {[1..n -> ScriptCutChoices] : n \in 0..MaxScriptCuts}

\* The colour of the material of the panel shown when the evaluation failed.
FallbackColor == 16739179

\* `select.value = v`: the option of that value becomes the selected one, and
\* without such an option nothing is selected (the value then parses as NaN).
SelectValue(options, v) == IF v \in options THEN v ELSE NaN

\* updateThicknessOptions(material), on the stored configuration cfg and the
\* form fields: the select gets the material's thicknesses as options and
\* keeps its value when that is one of them; otherwise it takes the first
\* option (`availableThicknesses[0] || 18`) and that value is written into
\* config.panel.thickness.
updateThicknessOptions(material, cfg, fields) ==
    LET availableThicknesses == AvailableThicknesses(material)
        options == Elements(availableThicknesses)
        currentThickness == fields.thickness
        first == SelectValue(options,
                             IF availableThicknesses # <<>>
                             THEN availableThicknesses[1] ELSE 18)
    IN IF currentThickness \in options
       THEN [fields |-> fields, options |-> options, cfg |-> cfg]
       ELSE [fields |-> [fields EXCEPT !.thickness = first],
             options |-> options,
             cfg |-> [cfg EXCEPT !.panel.thickness = first]]

\* A mesh that was just made: nothing of it is disposed.
Displayed(mesh) == [mesh |-> mesh, disposed |-> FALSE]

\* The mesh object of the panel shown after a failed evaluation.
FallbackMesh(geometry) ==
    [geometry |-> geometry, color |-> FallbackColor,
     castShadow |-> TRUE, receiveShadow |-> TRUE]

\* The displayed mesh is a result of evaluator.evaluate.  With the
\* evaluator's `useGroups` option (on unless switched off, and applyCuts
\* leaves it alone) the material of such a result is an array of materials,
\* on which `material.dispose` is not a function.
MaterialMayBeArray ==
    /\ currentPanelMesh # Null
    /\ meshes[currentPanelMesh].mesh.geometry.type = "Subtraction"

\* x <= n on a JavaScript number (false when x is NaN).
LessOrEqual(x, n) == x # NaN /\ x <= n

\* Math.max(a, b): NaN when either argument is NaN.
MathMax(a, b) == IF a = NaN \/ b = NaN THEN NaN ELSE IF a >= b THEN a ELSE b

\* A numeric property of a record that may lack it: `undefined` becomes NaN
\* in the arithmetic that follows.
Number(obj, f) == Destructure(obj, f, NaN)

\* calculateOptimalGridSize(panelConfig): the size of a cell, the same in X
\* and in Z, chosen by the larger of length and width.
calculateOptimalGridSize(panelConfig) ==
    LET maxDimension == MathMax(Number(panelConfig, "length"),
                                Number(panelConfig, "width"))
    IN IF LessOrEqual(maxDimension, 250) THEN 10
       ELSE IF LessOrEqual(maxDimension, 1000) THEN 50
       ELSE 100

\* What a step of a helper leaves behind: the values of the helper
\* variables, and whether the step ended in a TypeError.
Helpers(grid, helper, axes, labels, children, threw) ==
    [threw |-> threw, gridConfig |-> grid, gridHelper |-> helper,
     axesHelper |-> axes, axisLabels |-> labels, sceneChildren |-> children]

\* The helper variables as they stand.
CurrentHelpers ==
    Helpers(gridConfig, gridHelper, axesHelper, axisLabels, sceneChildren,
            FALSE)

\* updateGrid(panelConfig, config.grid, scene), starting from h: the old grid
\* leaves the scene and is let go; nothing more when the grid is not shown;
\* otherwise the cell size is computed (and written into the configuration
\* in automatic mode) and a new grid is added to the scene.  Reading the
\* dimensions of an absent panel record raises a TypeError.
updateGrid(panelConfig, h) ==
    LET removed ==
            [h EXCEPT !.gridHelper = NoObject,
                      !.sceneChildren.grids =
                          IF h.gridHelper = "scene" THEN @ - 1 ELSE @]
        size == calculateOptimalGridSize(panelConfig)
    IN IF ~removed.gridConfig.show THEN removed
       ELSE IF panelConfig = Undefined THEN [removed EXCEPT !.threw = TRUE]
       ELSE [removed EXCEPT
                !.gridConfig = IF @.autoSize
                               THEN [@ EXCEPT !.sizeX = size, !.sizeZ = size]
                               ELSE @,
                !.gridHelper = "scene",
                !.sceneChildren.grids = @ + 1]

\* `target.remove(object)`, on the number of such children of the main
\* scene: an object that is no child of the target stays where it is.
Remove(count, object, target) ==
    IF object = "scene" /\ target = "scene" THEN count - 1 ELSE count

\* `target.add(object)`, on the number of such children of the main scene.
Add(count, target) == IF target = "scene" THEN count + 1 ELSE count

\* disposeAxisLabels(target): each label is removed from the target scene
\* and its variable cleared.
disposeAxisLabels(target, h) ==
    IF h.axisLabels = NoObject THEN h
    ELSE [h EXCEPT !.axisLabels = NoObject,
                   !.sceneChildren.labels = Remove(@, h.axisLabels, target)]

\* disposeAxes(target): the same for the axes helper, then the labels.
disposeAxes(target, h) ==
    disposeAxisLabels(target,
        IF h.axesHelper = NoObject THEN h
        ELSE [h EXCEPT !.axesHelper = NoObject,
                       !.sceneChildren.axes = Remove(@, h.axesHelper, target)])

\* updateAxes(panelConfig, target): the old helper is removed from the
\* target scene and the variable cleared; a helper sized by the panel is
\* made and added to the target.  Reading the dimensions of an absent panel
\* record raises a TypeError.
updateAxes(panelConfig, target, h) ==
    LET removed ==
            IF h.axesHelper = NoObject THEN h
            ELSE [h EXCEPT !.axesHelper = NoObject,
                           !.sceneChildren.axes =
                               Remove(@, h.axesHelper, target)]
    IN IF panelConfig = Undefined THEN [removed EXCEPT !.threw = TRUE]
       ELSE [removed EXCEPT !.axesHelper = target,
                            !.sceneChildren.axes = Add(@, target)]

\* updateAxisLabels(panelConfig, target): the old labels are disposed of,
\* three new ones are made and added to the target.
updateAxisLabels(panelConfig, target, h) ==
    LET removed == disposeAxisLabels(target, h)
    IN [removed EXCEPT !.axisLabels = target,
                       !.sceneChildren.labels = Add(@, target)]

\* updateAxesAndLabels(panelConfig, target).
updateAxesAndLabels(panelConfig, target, h) ==
    LET axes == updateAxes(panelConfig, target, h)
    IN IF axes.threw THEN axes
       ELSE updateAxisLabels(panelConfig, target, axes)

\* Number.POSITIVE_INFINITY, the `maxDistance` of a new OrbitControls.
Infinity == 1000000

\* Largest root that Math.sqrt is asked for: the diagonal of the largest
\* panel of the model.
MaxRoot == 3000

\* The largest k in lo..hi with k * k <= n, by bisection.
RECURSIVE RootBetween(_, _, _)
RootBetween(n, lo, hi) ==
    IF lo = hi THEN lo
    ELSE LET mid == (lo + hi + 1) \div 2
         IN IF mid * mid <= n THEN RootBetween(n, mid, hi)
            ELSE RootBetween(n, lo, mid - 1)

\* Math.sqrt(n), rounded down to a whole number.
Sqrt(n) == RootBetween(n, 0, MaxRoot)

\* x * num / den on a JavaScript number, rounded down (NaN stays NaN).
Scaled(x, num, den) == IF x = NaN THEN NaN ELSE (x * num) \div den

\* calculateOptimalCameraSettings(panelConfig): the distance limits, in
\* whole millimetres: a tenth of the diagonal but at least 10, and five
\* times the diagonal but at least 1000.
calculateOptimalCameraSettings(panelConfig) ==
    LET length == Number(panelConfig, "length")
        width == Number(panelConfig, "width")
        thickness == Number(panelConfig, "thickness")
        diagonal == IF NaN \in {length, width, thickness} THEN NaN
                    ELSE Sqrt(length * length + width * width
                              + thickness * thickness)
    IN [minDistance |-> MathMax(Scaled(diagonal, 1, 10), 10),
        maxDistance |-> MathMax(Scaled(diagonal, 5, 1), 1000)]

\* `new OrbitControls(camera, canvas)`: not disposed, the distance limits of
\* the class (0 and Infinity), the target at the origin.  The target is the
\* height of the point looked at, in half-millimetres.
OrbitControls ==
    [disposed |-> FALSE, target |-> 0, minDistance |-> 0,
     maxDistance |-> Infinity]

\* updateCameraForPanel(panelConfig), on the variables of cameraManager.js
\* and the controls objects: with a camera and a controls object, that
\* object gets the computed limits and looks at half the thickness.
updateCameraForPanel(panelConfig, manager, objects) ==
    LET cameraSettings == calculateOptimalCameraSettings(panelConfig)
    IN IF ~manager.camera \/ manager.controls = Null THEN objects
       ELSE [objects EXCEPT ![manager.controls] =
                [@ EXCEPT !.minDistance = cameraSettings.minDistance,
                          !.maxDistance = cameraSettings.maxDistance,
                          !.target = Number(panelConfig, "thickness")]]

\* The variables of cameraManager.js together with the controls objects.
Cameras(manager, objects) == [manager |-> manager, objects |-> objects]

\* initCamera(container, panelConfig): a camera; the canvas of the renderer
\* is in the container already, so a controls object is made for it and
\* updateCameraForPanel sets its limits.
initCamera(panelConfig, objects) ==
    LET manager == [controls |-> Len(objects) + 1, camera |-> TRUE]
    IN Cameras(manager,
               updateCameraForPanel(panelConfig, manager,
                                    Append(objects, OrbitControls)))

\* setControlsCanvas(canvas): the controls object in place is disposed, and
\* with a camera a new one takes its place.
setControlsCanvas(manager, objects) ==
    LET disposed == IF manager.controls = Null THEN objects
                    ELSE [objects EXCEPT ![manager.controls].disposed = TRUE]
    IN IF manager.camera
       THEN Cameras([manager EXCEPT !.controls = Len(disposed) + 1],
                    Append(disposed, OrbitControls))
       ELSE Cameras(manager, disposed)

\* initThreeJS(), as far as the camera goes: initCamera, whose controls
\* object main.ts keeps in `controls`; setControlsCanvas; initViewCube with
\* `controls` of main.ts.
initThreeJS(panelConfig) ==
    LET cameraData == initCamera(panelConfig, orbitControls)
        reset == setControlsCanvas(cameraData.manager, cameraData.objects)
    IN /\ controls' = cameraData.manager.controls
       /\ cameraManager' = reset.manager
       /\ orbitControls' = reset.objects
       /\ mainControls' = controls'

\* The helper variables take the values of h.
SetHelpers(h) ==
    /\ gridConfig' = h.gridConfig
    /\ gridHelper' = h.gridHelper
    /\ axesHelper' = h.axesHelper
    /\ axisLabels' = h.axisLabels
    /\ sceneChildren' = h.sceneChildren

\* The entry of CSGManager.applyCuts for the configuration passed in, up to
\* the `for`.
applyCutsEntry(panelConfig) ==
    LET made == createPanelGeometry(panelConfig.panel)
    IN /\ config' = panelConfig
       /\ mainBrush' = PanelBrush(made.geometry,
                           SelectedMaterialColor(panelConfig.panel.material))
       /\ console' = made.warnings
       /\ pc' = "loop"
       /\ cutIndex' = 1
       /\ evaluations' = <<>>
       /\ normalsCalls' = 0

\* The grid and the axes as updatePanel3D updates them before its `try`:
\* updateGrid, then updateAxesAndLabels unless updateGrid raised.
UpdatedHelpers(panelConfig, h) ==
    LET grid == updateGrid(panelConfig, h)
    IN IF grid.threw THEN grid
       ELSE updateAxesAndLabels(panelConfig, "scene", grid)

\* updatePanel3D(panelConfig) up to the call of applyCuts: the displayed mesh
\* leaves the scene and its geometry is disposed; then either its material
\* is disposed too and, the grid and the axes updated, applyCuts is entered
\* inside the `try`, or a TypeError ends updatePanel3D and the handler that
\* called it: raised by disposing the material, or by the update of the
\* grid or the axes for a configuration without a panel record.
updatePanel3D(panelConfig, h) ==
    LET updated == UpdatedHelpers(Read(panelConfig, "panel"), h)
    IN /\ scene' = scene \ {currentPanelMesh}
       /\ meshes' = IF currentPanelMesh = Null THEN meshes
                    ELSE [meshes EXCEPT ![currentPanelMesh].disposed = TRUE]
       /\ UNCHANGED <<currentPanelMesh, genCall>>
       /\ \/ /\ ~updated.threw
             /\ SetHelpers(updated)
             /\ applyCutsEntry(panelConfig)
          \/ /\ updated.threw
             /\ SetHelpers(updated)
             /\ UNCHANGED evalVars
          \/ /\ MaterialMayBeArray
             /\ UNCHANGED <<evalVars, helperVars>>

\* The four fields as updatePanelFromUI restores them from the stored
\* configuration when the validation failed.
RestoredInputs(cfg, options) ==
    [width |-> cfg.panel.width, length |-> cfg.panel.length,
     thickness |-> SelectValue(options, cfg.panel.thickness),
     material |-> cfg.panel.material]

\* The validation failed: alert, restore the fields, return.
RejectFields(cfg, options) ==
    /\ appConfig' = cfg
    /\ inputs' = RestoredInputs(cfg, options)
    /\ UNCHANGED <<scene, currentPanelMesh, meshes, evalVars, genCall,
                   helperVars, cameraVars>>

\* The validation passed: the values are stored and the panel is rebuilt.
AcceptFields(cfg, fields) ==
    LET stored == [cfg EXCEPT !.panel.length = fields.length,
                              !.panel.width = fields.width,
                              !.panel.thickness = fields.thickness,
                              !.panel.material = fields.material]
    IN /\ appConfig' = stored
       /\ inputs' = fields
       /\ orbitControls' = updateCameraForPanel(stored.panel, cameraManager,
                                                orbitControls)
       /\ UNCHANGED <<controls, cameraManager, mainControls>>
       /\ updatePanel3D(stored, CurrentHelpers)

\* Mutant: the outcome of the validation is ignored, the values are stored
\* and the panel is rebuilt in any case.
UpdatePanelFromUI_IgnoresValidation(who, cfg, fields, options) ==
    LET answer == validatePanelDimensions(fields.length, fields.width,
                                          fields.thickness, fields.material)
    IN /\ event' = who
       /\ validation' = [fields |-> fields, isValid |-> answer.isValid]
       /\ thicknessOptions' = options
       /\ AcceptFields(cfg, fields)
       /\ UNCHANGED <<modalActive, cutInputs, modalVars, returned>>

\* updatePanelFromUI(), called by handler `who` with the stored
\* configuration, the form fields and the thickness options as they are at
\* that moment: read the four fields, validate, then reject or accept.
UpdatePanelFromUI(who, cfg, fields, options) ==
    LET answer == validatePanelDimensions(fields.length, fields.width,
                                          fields.thickness, fields.material)
    IN /\ event' = who
       /\ validation' = [fields |-> fields, isValid |-> answer.isValid]
       /\ thicknessOptions' = options
       /\ IF answer.isValid
          THEN AcceptFields(cfg, fields)
          ELSE RejectFields(cfg, options)
       /\ UNCHANGED <<modalActive, cutInputs, modalVars, returned>>

\* No handler is running and init() has run.
Ready == pc = "idle" /\ event # "load"

\* init(): initThreeJS makes the camera, its controls and the axes for the
\* stored panel; initUIControls copies length, width and material from the
\* stored configuration into the form, fills the thickness options for the
\* stored material and selects the stored thickness; then
\* updatePanel3D(config).
InitApp ==
    /\ event = "load"
    /\ pc = "idle"
    /\ LET synced == [inputs EXCEPT !.length = appConfig.panel.length,
                                    !.width = appConfig.panel.width,
                                    !.material = appConfig.panel.material]
           filled == updateThicknessOptions(appConfig.panel.material,
                                            appConfig, synced)
       IN /\ appConfig' = filled.cfg
          /\ thicknessOptions' = filled.options
          /\ inputs' = [filled.fields EXCEPT !.thickness =
                          SelectValue(filled.options,
                                      filled.cfg.panel.thickness)]
          /\ updatePanel3D(filled.cfg,
                           updateAxesAndLabels(appConfig.panel, "scene",
                                               CurrentHelpers))
    /\ initThreeJS(appConfig.panel)
    /\ event' = "init"
    /\ validation' = NoCall
    /\ UNCHANGED <<modalActive, cutInputs, modalVars, returned>>

\* The user types into the length and width fields (no handler runs).
EditField ==
    /\ Ready
    /\ \E length \in LengthInputs, width \in WidthInputs :
         /\ inputs' = [inputs EXCEPT !.length = length, !.width = width]
         /\ inputs' # inputs
    /\ event' = "edit"
    /\ validation' = NoCall
    /\ UNCHANGED <<appConfig, thicknessOptions, scene, currentPanelMesh,
                   meshes, modalActive, cutInputs, evalVars, genCall,
                   viewVars>>

\* Click on the update button.
ClickUpdate ==
    /\ Ready
    /\ UpdatePanelFromUI("update", appConfig, inputs, thicknessOptions)

\* Enter pressed in the length or the width field.
PressEnter ==
    /\ Ready
    /\ UpdatePanelFromUI("enter", appConfig, inputs, thicknessOptions)

\* Another material is selected: updateThicknessOptions for it, then
\* updatePanelFromUI.
ChangeMaterial ==
    /\ Ready
    /\ \E material \in MaterialOptions \ {inputs.material} :
         LET filled == updateThicknessOptions(
                           material, appConfig,
                           [inputs EXCEPT !.material = material])
         IN UpdatePanelFromUI("material", filled.cfg, filled.fields,
                              filled.options)

\* Another thickness is selected: updatePanelFromUI.  (Not taken when it
\* would put more than MaxAxes axes helpers into the main scene.)
ChangeThickness ==
    /\ Ready
    /\ axesHelper = "scene" \/ sceneChildren.axes < MaxAxes
    /\ \E thickness \in (thicknessOptions \cap ThicknessPicks)
                          \ {inputs.thickness} :
         UpdatePanelFromUI("thickness", appConfig,
                           [inputs EXCEPT !.thickness = thickness],
                           thicknessOptions)

\* A script calls window.updatePanel3D with a configuration that has the
\* stored panel and a cut list of its own.
ScriptUpdatePanel3D ==
    /\ Ready
    /\ \E cuts \in ScriptCutLists :
         updatePanel3D([panel |-> appConfig.panel, cuts |-> cuts],
                       CurrentHelpers)
    /\ event' = "script"
    /\ validation' = NoCall
    /\ UNCHANGED <<appConfig, inputs, thicknessOptions, modalActive,
                   cutInputs, modalVars, cameraVars, returned>>

\* A mesh object that neither the scene nor currentPanelMesh refers to.
FreshMesh ==
    CHOOSE i \in 1..(Cardinality(scene \cup {currentPanelMesh}) + 1) :
        i \notin scene \cup {currentPanelMesh}

\* `currentPanelMesh = mesh; scene.add(currentPanelMesh)`, after which
\* updatePanel3D and the handler that called it return: the locals of
\* applyCuts are gone, the console keeps what the call logged.
Install(mesh) ==
    /\ currentPanelMesh' = FreshMesh
    /\ scene' = scene \cup {FreshMesh}
    /\ meshes' = [i \in scene' |->
                    IF i = FreshMesh THEN Displayed(mesh) ELSE meshes[i]]
    /\ pc' = "idle"
    /\ event' = "none"
    /\ validation' = NoCall
    /\ config' = defaultConfig
    /\ cutIndex' = 1
    /\ mainBrush' = NoBrush
    /\ evaluations' = <<>>
    /\ normalsCalls' = 0
    /\ UNCHANGED <<genCall, appConfig, inputs, thicknessOptions, modalActive,
                   cutInputs, viewVars>>

\* The error that `catch (error)` receives: the failure of the boolean
\* routine when the last evaluate call is the one for the current entry,
\* the TypeError of a generator otherwise.
CaughtError ==
    IF evaluations # <<>> /\ evaluations[Len(evaluations)].index = cutIndex
    THEN "evaluate" ELSE "TypeError"

\* The `try` block: applyCuts returned its mesh.
UpdatePanel3DInstall ==
    /\ pc = "done"
    /\ Install(mainBrush)
    /\ UNCHANGED console

\* Mutant: the `catch` block shows what applyCuts had built when it failed.
UpdatePanel3DCatch_KeepsPartial ==
    /\ pc = "failed"
    /\ Install(mainBrush)
    /\ console' = Append(console,
                         "Erreur lors de la mise a jour du panneau 3D: "
                             \o CaughtError)

\* The `catch` block: applyCuts threw; a plain panel is made from the panel
\* of the same configuration and shown.
UpdatePanel3DCatch ==
    /\ pc = "failed"
    /\ LET made == createPanelGeometry(config.panel)
       IN /\ Install(FallbackMesh(made.geometry))
          /\ console' = Append(console,
                               "Erreur lors de la mise a jour du panneau 3D: "
                             \o CaughtError)
                          \o made.warnings

NextUI ==
    \/ InitApp
    \/ EditField
    \/ ClickUpdate
    \/ PressEnter
    \/ ChangeMaterial
    \/ ChangeThickness
    \/ ScriptUpdatePanel3D
    \/ SkipUnrecognized
    \/ SubtractCut
    \/ SubtractThrows
    \/ GeneratorThrows
    \/ ApplyCutsReturn
    \/ UpdatePanel3DInstall
    \/ UpdatePanel3DCatch

SpecUI == Init /\ [][NextUI]_vars


\* ====================================================================
\* CSGManager.applyCuts on lists of two placed cuts, one call after another
\* ====================================================================
\* Panels and cut entries of these calls: valid cuts that are placed and not
\* rotated, two of which overlap (the first and the last).
OrderPanels ==
    {[width |-> 500, length |-> 1000, thickness |-> t, material |-> "pine"] :
        t \in {5, 20}}
OrderCutChoices ==
    { [type |-> "circular", params |-> [depth |-> 20, radius |-> 25],
       position |-> [x |-> 0, y |-> 0, z |-> 0]],
      [type |-> "rectangular",
       params |-> [width |-> 50, depth |-> 20, length |-> 100],
       position |-> [x |-> 200]],
      [type |-> "circular", params |-> [depth |-> 10, radius |-> 25],
       position |-> [x |-> 0 - 200, y |-> 6]],
      [type |-> "rectangular",
       params |-> [width |-> 50, depth |-> 20, length |-> 100],
       position |-> [x |-> 20]] }
OrderCutLists == [1..2 -> OrderCutChoices]

\* What a call of applyCuts from a script leaves alone.
callerVars == <<appConfig, inputs, thicknessOptions, event, validation, scene,
                currentPanelMesh, meshes, modalActive, cutInputs, helperVars,
                modalVars, cameraVars, genCall>>

\* CSGManager.applyCuts(config) with one of these configurations.
ApplyCutsPlaced ==
    /\ pc = "idle"
    /\ \E panel \in OrderPanels, cuts \in OrderCutLists :
         applyCutsEntry([panel |-> panel, cuts |-> cuts])
    /\ UNCHANGED <<callerVars, returned>>

\* The call is over: the caller has the mesh that a `return` handed back (its
\* configuration and its solid are remembered until the next return), the
\* locals of applyCuts are gone, and the next call starts afresh.
ApplyCutsHandBack ==
    /\ pc \in {"done", "failed"}
    /\ returned' = IF pc = "done"
                   THEN [config |-> config,
                         solid |-> Solid(mainBrush.geometry)]
                   ELSE returned
    /\ config' = defaultConfig
    /\ pc' = "idle"
    /\ cutIndex' = 1
    /\ mainBrush' = NoBrush
    /\ evaluations' = <<>>
    /\ console' = <<>>
    /\ normalsCalls' = 0
    /\ UNCHANGED callerVars

NextOrder ==
    \/ ApplyCutsPlaced
    \/ SubtractCut
    \/ SubtractThrows
    \/ ApplyCutsReturn
    \/ ApplyCutsHandBack

SpecOrder == Init /\ [][NextOrder]_vars


\* ====================================================================
\* circularCutModal.js: the circular-cut modal
\* ====================================================================
\* CIRCULAR_CUT_CONSTRAINTS, in tenths of a millimetre: diameter 1 to 3000,
\* depth at least 0.2.
DiameterMin == 10
DiameterMax == 30000
DepthMin == 2

\* A length of the panel (millimetres) in tenths of a millimetre.
Tenths(mm) == IF mm = NaN THEN NaN ELSE 10 * mm

\* What a user types into the diameter and depth fields, in tenths of a
\* millimetre: nothing (NaN), values under the minimum, ordinary values,
\* and values beyond the maximum or the thickness of any panel.
DiameterInputs == {NaN, 5, 500, 40000}
DepthInputs == {NaN, 1, 100, 300}

\* validateCircularCutParameters(diameter, depth), with `cfg` the stored
\* configuration that initCircularCutModal received.
validateCircularCutParameters(diameter, depth) ==
    Validated(
        (IF LessThan(diameter, DiameterMin) \/ GreaterThan(diameter, DiameterMax)
         THEN <<"Le diametre doit etre entre 1 et 3000mm">> ELSE <<>>)
     \o (IF LessThan(depth, DepthMin)
         THEN <<"La profondeur doit etre d'au moins 0.2mm">> ELSE <<>>)
     \o (IF GreaterThan(depth, Tenths(appConfig.panel.thickness))
         THEN <<"La profondeur ne peut pas depasser l'epaisseur du panneau">>
         ELSE <<>>))

\* What the modal's handlers leave alone.
formVars == <<appConfig, inputs, thicknessOptions, validation, scene,
              currentPanelMesh, meshes, evalVars, genCall, gridConfig,
              gridHelper, cameraVars, returned>>

\* `parseFloat(field.value) || d`: 0 and NaN give the default.
OrDefault(v, d) == IF v = NaN \/ v = 0 THEN d ELSE v

\* The axes and labels take the values of h.
SetAxes(h) ==
    /\ axesHelper' = h.axesHelper
    /\ axisLabels' = h.axisLabels
    /\ sceneChildren' = h.sceneChildren

\* updateModalPreview(), with the fields as they stand: the preview mesh is
\* replaced by a cylinder for the fields, and the axes and labels are
\* updated for that cylinder in the modal's scene.
updateModalPreview(fields, view) ==
    LET cylinderConfig ==
            [width |-> OrDefault(fields.diameter, 500),
             length |-> OrDefault(fields.diameter, 500),
             thickness |-> OrDefault(fields.depth, 180)]
    IN /\ modalView' = [view EXCEPT !.modalCutMesh = TRUE]
       /\ SetAxes(updateAxesAndLabels(cylinderConfig, "modalScene",
                                      CurrentHelpers))

\* `if (modalScene) { updateModalPreview(); }` at the end of a handler.
PreviewIfOpen(fields) ==
    IF modalView.modalScene
    THEN updateModalPreview(fields, modalView)
    ELSE UNCHANGED <<modalView, axesHelper, axisLabels, sceneChildren>>

\* cleanupModalScene(): the preview mesh is disposed, the axes and labels
\* are removed from the modal's scene when there is one, the renderer and
\* the controls are disposed, and the five variables are cleared.
cleanupModalScene ==
    /\ SetAxes(IF modalView.modalScene
               THEN disposeAxes("modalScene", CurrentHelpers)
               ELSE CurrentHelpers)
    /\ renderers' = IF modalView.modalRenderer THEN renderers - 1
                    ELSE renderers
    /\ modalView' = NoModalView

\* Click on the button that opens the modal: the modal becomes active and
\* initModalScene is set to run 100 ms later.
OpenModal ==
    /\ Ready
    /\ ~modalActive
    /\ renderers + timers < MaxRenderers
    /\ awaiting + timers < MaxRenderers
    /\ sceneChildren.axes < MaxAxes
    /\ modalActive' = TRUE
    /\ timers' = timers + 1
    /\ event' = "open"
    /\ UNCHANGED <<cutInputs, formVars, modalView, awaiting, renderers,
                   axesHelper, axisLabels, sceneChildren>>

\* The timer of the open button runs out: initModalScene up to its `await`
\* (which makes it an asynchronous function): a new scene, whatever was in
\* the previous one being let go with it, a new camera and a new renderer
\* take the place of what the variables held.
InitModalScene ==
    /\ Ready
    /\ timers > 0
    /\ timers' = timers - 1
    /\ awaiting' = awaiting + 1
    /\ renderers' = renderers + 1
    /\ modalView' = [modalView EXCEPT !.modalScene = TRUE,
                                      !.modalCamera = TRUE,
                                      !.modalRenderer = TRUE]
    /\ axesHelper' = IF axesHelper = "modalScene" THEN "dropped"
                     ELSE axesHelper
    /\ axisLabels' = IF axisLabels = "modalScene" THEN "dropped"
                     ELSE axisLabels
    /\ event' = "timer"
    /\ UNCHANGED <<modalActive, cutInputs, formVars, sceneChildren>>

\* initModalScene after its `await`: controls for the camera and the canvas
\* of the renderer (a TypeError when the renderer was cleared meanwhile),
\* the lights, and updateModalPreview.
InitModalSceneResume ==
    /\ Ready
    /\ awaiting > 0
    /\ awaiting' = awaiting - 1
    /\ IF modalView.modalRenderer
       THEN updateModalPreview(cutInputs,
                               [modalView EXCEPT !.modalControls = TRUE])
       ELSE UNCHANGED <<modalView, axesHelper, axisLabels, sceneChildren>>
    /\ event' = "resume"
    /\ UNCHANGED <<modalActive, cutInputs, formVars, timers, renderers>>

\* closeModal(): the close button, the cancel button, a click on the
\* backdrop, the Escape key.
CloseModal ==
    /\ Ready
    /\ modalActive
    /\ modalActive' = FALSE
    /\ cleanupModalScene
    /\ event' = "close"
    /\ UNCHANGED <<cutInputs, formVars, timers, awaiting>>

\* `input` on the diameter field: a value under the minimum becomes the
\* minimum, a value over the maximum the maximum; then the preview.
InputCutDiameter ==
    /\ Ready
    /\ modalActive
    /\ \E diameter \in DiameterInputs :
         cutInputs' = [cutInputs EXCEPT !.diameter =
                          IF LessThan(diameter, DiameterMin) THEN DiameterMin
                          ELSE IF GreaterThan(diameter, DiameterMax)
                               THEN DiameterMax
                          ELSE diameter]
    /\ PreviewIfOpen(cutInputs')
    /\ event' = "input"
    /\ UNCHANGED <<modalActive, formVars, timers, awaiting, renderers>>

\* `input` on the depth field: a value under the minimum becomes the
\* minimum, a value over the panel's thickness the thickness; then the
\* preview.
InputCutDepth ==
    /\ Ready
    /\ modalActive
    /\ \E depth \in DepthInputs :
         cutInputs' = [cutInputs EXCEPT !.depth =
                          IF LessThan(depth, DepthMin) THEN DepthMin
                          ELSE IF GreaterThan(depth,
                                      Tenths(appConfig.panel.thickness))
                               THEN Tenths(appConfig.panel.thickness)
                          ELSE depth]
    /\ PreviewIfOpen(cutInputs')
    /\ event' = "input"
    /\ UNCHANGED <<modalActive, formVars, timers, awaiting, renderers>>

\* Click on Apply: validate the two fields; on failure alert and return,
\* the modal staying open; otherwise log the cut and closeModal().  The
\* stored configuration is not touched.
ApplyCut ==
    /\ Ready
    /\ modalActive
    /\ IF validateCircularCutParameters(cutInputs.diameter,
                                        cutInputs.depth).isValid
       THEN /\ modalActive' = FALSE
            /\ cleanupModalScene
       ELSE UNCHANGED <<modalActive, modalView, renderers, axesHelper,
                        axisLabels, sceneChildren>>
    /\ event' = "apply"
    /\ UNCHANGED <<cutInputs, formVars, timers, awaiting>>

NextModal ==
    \/ InitApp
    \/ ApplyCutsReturn
    \/ UpdatePanel3DInstall
    \/ ChangeThickness
    \/ OpenModal
    \/ InitModalScene
    \/ InitModalSceneResume
    \/ CloseModal
    \/ InputCutDiameter
    \/ InputCutDepth
    \/ ApplyCut

SpecModal == Init /\ [][NextModal]_vars


\* ====================================================================
\* grid.js and the grid controls of main.ts
\* ====================================================================
\* What a user types into the two cell-size fields, as parseInt reads them:
\* nothing (NaN), 0, and an ordinary size.
GridSizeInputs == {NaN, 0, 25}

\* toggleGrid(show, config.grid, panelConfig, scene).
toggleGrid(show, panelConfig, h) ==
    updateGrid(panelConfig, [h EXCEPT !.gridConfig.show = show])

\* updateGridSettings(sizeX, sizeZ, autoSize, config.grid, panelConfig,
\* scene): the three settings are stored, the sizes at 1 or more, and the
\* grid is rebuilt when it is shown.
updateGridSettings(sizeX, sizeZ, autoSize, panelConfig, h) ==
    LET stored == [h EXCEPT !.gridConfig.sizeX = MathMax(1, sizeX),
                            !.gridConfig.sizeZ = MathMax(1, sizeZ),
                            !.gridConfig.autoSize = autoSize]
    IN IF stored.gridConfig.show THEN updateGrid(panelConfig, stored)
       ELSE stored

\* What the grid controls leave alone.
gridFrame == <<appConfig, inputs, thicknessOptions, validation, scene,
               currentPanelMesh, meshes, modalActive, cutInputs, evalVars,
               genCall, modalVars, cameraVars, returned>>

\* Click on the button that shows or hides the grid.
ToggleGrid ==
    /\ Ready
    /\ SetHelpers(toggleGrid(~gridConfig.show, appConfig.panel,
                             CurrentHelpers))
    /\ event' = "grid"
    /\ UNCHANGED gridFrame

\* The automatic-size checkbox becomes checked: the optimal size for the
\* stored panel is applied at once.
CheckAutoSize ==
    /\ Ready
    /\ LET optimalSize == calculateOptimalGridSize(appConfig.panel)
       IN SetHelpers(updateGridSettings(optimalSize, optimalSize, TRUE,
                                        appConfig.panel, CurrentHelpers))
    /\ event' = "grid"
    /\ UNCHANGED gridFrame

\* Click on the apply button of the grid controls (or Enter in a size
\* field), with the two size fields and the checkbox as the user left them.
ApplyGridSettings ==
    /\ Ready
    /\ \E sizeX \in GridSizeInputs, sizeZ \in GridSizeInputs,
          autoSize \in BOOLEAN :
         SetHelpers(updateGridSettings(sizeX, sizeZ, autoSize,
                                       appConfig.panel, CurrentHelpers))
    /\ event' = "grid"
    /\ UNCHANGED gridFrame

\* A script calls window.updatePanel3D with a configuration that has a cut
\* list and no panel record.
ScriptUpdatePanel3DNoPanel ==
    /\ Ready
    /\ updatePanel3D([cuts |-> <<>>], CurrentHelpers)
    /\ event' = "script"
    /\ validation' = NoCall
    /\ UNCHANGED <<appConfig, inputs, thicknessOptions, modalActive,
                   cutInputs, modalVars, cameraVars, returned>>

NextGrid ==
    \/ InitApp
    \/ EditField
    \/ ClickUpdate
    \/ ChangeThickness
    \/ ApplyCutsReturn
    \/ UpdatePanel3DInstall
    \/ ToggleGrid
    \/ CheckAutoSize
    \/ ApplyGridSettings
    \/ ScriptUpdatePanel3DNoPanel

SpecGrid == Init /\ [][NextGrid]_vars


\* ====================================================================
\* Properties of the generators (checked under SpecGen)
\* ====================================================================
CylinderCalled ==
    genCall.fn = "createCylinderGeometryForHole" /\ genCall.params # Undefined
RectCalled ==
    genCall.fn = "createBoxGeometryForRectangularCut"
    /\ genCall.params # Undefined
PanelCalled ==
    genCall.fn = "createPanelGeometry" /\ genCall.params # Undefined

\* The value a generator works with for field f: the caller's when the
\* field is present, the documented default d otherwise.
Given(f, d) == IF f \in DOMAIN genCall.params THEN genCall.params[f] ELSE d

\* The returned geometry is the cylinder (r, r, h, n).
ReturnsCylinder(r, h, n) ==
    /\ ~genCall.result.threw
    /\ genCall.result.geometry.type = "CylinderGeometry"
    /\ genCall.result.geometry.radiusTop = r
    /\ genCall.result.geometry.radiusBottom = r
    /\ genCall.result.geometry.height = h
    /\ genCall.result.geometry.radialSegments = n

\* The returned geometry is the box x (X) by y (Y, up) by z (Z).
ReturnsBox(x, y, z) ==
    /\ ~genCall.result.threw
    /\ genCall.result.geometry.type = "BoxGeometry"
    /\ genCall.result.geometry.width = x
    /\ genCall.result.geometry.height = y
    /\ genCall.result.geometry.depth = z

Warned == Len(genCall.result.warnings) = 1

\* A generator (not the validator) was called.
GeneratorCalled ==
    genCall.fn \in {"createCylinderGeometryForHole",
                    "createBoxGeometryForRectangularCut",
                    "createPanelGeometry"}

\* C4: createCylinderGeometryForHole with radius <= 0 returns the default
\* cylinder (radius 10, depth 20, 32 segments) whatever depth and segments
\* are, and warns.
C4_RadiusFallback ==
    (CylinderCalled /\ LeqZero(Given("radius", 10)))
        => (ReturnsCylinder(10, 20, 32) /\ Warned)

\* C4 witness: a call with radius <= 0 and a valid depth and segment count
\* of the caller's, both different from the defaults, has returned.
C4_Witness ==
    /\ CylinderCalled
    /\ LeqZero(Given("radius", 10))
    /\ Positive(Given("depth", 20)) /\ Given("depth", 20) # 20
    /\ ~LessThan(Given("segments", 32), 3) /\ Given("segments", 32) # 32
    /\ ReturnsCylinder(10, 20, 32)

\* C5 as stated: with radius > 0 and depth <= 0 the cylinder has the given
\* radius, depth 20 and 32 segments for every value of segments, and a
\* warning is emitted.
C5_AsClaimed ==
    (CylinderCalled /\ Positive(Given("radius", 10))
                    /\ LeqZero(Given("depth", 20)))
        => (ReturnsCylinder(Given("radius", 10), 20, 32) /\ Warned)

\* C5 amended: with radius > 0 and depth <= 0 the cylinder has the given
\* radius, depth 20 and the segment count as passed by the caller (32 only
\* when segments is omitted), and a warning is emitted.
C5_DepthFallback ==
    (CylinderCalled /\ Positive(Given("radius", 10))
                    /\ LeqZero(Given("depth", 20)))
        => (/\ ReturnsCylinder(Given("radius", 10), 20, Given("segments", 32))
            /\ Warned)

\* C5 witness: such a call with a caller's segment count other than 32.
C5_Witness ==
    /\ CylinderCalled
    /\ Positive(Given("radius", 10))
    /\ LeqZero(Given("depth", 20))
    /\ "segments" \in DOMAIN genCall.params
    /\ genCall.params.segments = 4
    /\ ReturnsCylinder(Given("radius", 10), 20, 4)

\* C6: with radius > 0, depth > 0 and segments < 3 the cylinder has the
\* given radius, the given depth and 32 segments, and a warning is emitted.
C6_SegmentsFallback ==
    (CylinderCalled /\ Positive(Given("radius", 10))
                    /\ Positive(Given("depth", 20))
                    /\ LessThan(Given("segments", 32), 3))
        => (/\ ReturnsCylinder(Given("radius", 10), Given("depth", 20), 32)
            /\ Warned)

\* C6 witness: such a call with the caller's own radius and depth.
C6_Witness ==
    /\ CylinderCalled
    /\ DOMAIN genCall.params = {"radius", "depth", "segments"}
    /\ Positive(genCall.params.radius)
    /\ Positive(genCall.params.depth)
    /\ genCall.params.radius # genCall.params.depth
    /\ LessThan(genCall.params.segments, 3)
    /\ ReturnsCylinder(genCall.params.radius, genCall.params.depth, 32)

\* C7 as stated: for every parameter record the returned cylinder has at
\* least 3 radial segments, and 32 when segments is omitted.
C7_AsClaimed ==
    CylinderCalled
        => (/\ ~genCall.result.threw
            /\ genCall.result.geometry.radialSegments # NaN
            /\ genCall.result.geometry.radialSegments >= 3
            /\ ("segments" \notin DOMAIN genCall.params
                    => genCall.result.geometry.radialSegments = 32))

\* C8: createBoxGeometryForRectangularCut returns exactly the box
\* 50 (X) x 20 (Y) x 30 (Z), with a warning, whenever at least one of
\* length, width, depth is <= 0, whatever the other values are.
C8_RectFallback ==
    (RectCalled /\ (\/ LeqZero(Given("length", 50))
                    \/ LeqZero(Given("width", 30))
                    \/ LeqZero(Given("depth", 20))))
        => (ReturnsBox(50, 20, 30) /\ Warned)

\* C8 witness: a call with exactly one non-positive dimension and two
\* valid ones of the caller's has returned the fallback box.
C8_Witness ==
    /\ RectCalled
    /\ DOMAIN genCall.params = {"length", "width", "depth"}
    /\ Positive(genCall.params.length)
    /\ LeqZero(genCall.params.width)
    /\ Positive(genCall.params.depth)
    /\ ReturnsBox(50, 20, 30)

\* C9: for positive length, width, depth (an omitted field counting as its
\* default 50, 30, 20) the returned box has X extent length, Y (up) extent
\* depth and Z extent width.
C9_RectAxes ==
    (RectCalled /\ Positive(Given("length", 50))
                /\ Positive(Given("width", 30))
                /\ Positive(Given("depth", 20)))
        => (/\ ReturnsBox(Given("length", 50), Given("depth", 20),
                          Given("width", 30))
            /\ BoundingBoxExtent(genCall.result.geometry, 1) = Given("length", 50)
            /\ BoundingBoxExtent(genCall.result.geometry, 2) = Given("depth", 20)
            /\ BoundingBoxExtent(genCall.result.geometry, 3) = Given("width", 30)
            /\ genCall.result.warnings = <<>>)

\* C9 witness: a call with two different positive dimensions and width
\* omitted has returned, the default 30 on the Z axis.
C9_Witness ==
    /\ RectCalled
    /\ DOMAIN genCall.params = {"length", "depth"}
    /\ Positive(genCall.params.length)
    /\ Positive(genCall.params.depth)
    /\ genCall.params.length # genCall.params.depth
    /\ ReturnsBox(genCall.params.length, genCall.params.depth, 30)

C11_PanelFallback ==
    (PanelCalled /\ (\/ LeqZero(Given("length", 200))
                     \/ LeqZero(Given("width", 100))
                     \/ LeqZero(Given("thickness", 18))))
        => (ReturnsBox(200, 18, 100) /\ Warned)

\* C11 witness: a call with a non-positive thickness only, the length and
\* the width being the caller's own valid values, returned the fixed box.
C11_Witness ==
    /\ PanelCalled
    /\ DOMAIN genCall.params = {"length", "width", "thickness"}
    /\ Positive(genCall.params.length)
    /\ Positive(genCall.params.width)
    /\ genCall.params.length # genCall.params.width
    /\ LeqZero(genCall.params.thickness)
    /\ ReturnsBox(200, 18, 100)
    /\ Warned

\* C12 as stated: every solid a generator returns, on the normal path and
\* on every fallback path, has its bounding box and its bounding sphere
\* computed.
C12_AsClaimed ==
    (GeneratorCalled /\ ~genCall.result.threw)
        => (/\ genCall.result.geometry.boundingBox
            /\ genCall.result.geometry.boundingSphere)

\* A dimension the caller supplied that is not a positive number (zero,
\* negative or NaN).
SuppliedInvalidDimension ==
    \E f \in DOMAIN genCall.params \ {"segments"} :
        ~Positive(genCall.params[f])

\* C13 as stated: no generator call throws, whatever the argument (the
\* absent parameter record included), and whenever a supplied dimension is
\* not a positive number the call emits a warning.
C13_AsClaimed ==
    GeneratorCalled
        => (/\ ~genCall.result.threw
            /\ (genCall.params # Undefined /\ SuppliedInvalidDimension)
                  => Warned)

\* C18 as stated: validatePanelDimensions reports isValid exactly when
\* length is a number in [10, 2500], width is a number in [10, 1250] and
\* thickness is in the thickness set of the material, the set of a material
\* that is no entry of the table being empty; a NaN length or width is
\* rejected.
C18_AsClaimed ==
    genCall.fn = "validatePanelDimensions"
        => (/\ ~genCall.result.threw
            /\ genCall.result.isValid
                 <=> (/\ genCall.params.length # NaN
                      /\ genCall.params.length >= 10
                      /\ genCall.params.length <= 2500
                      /\ genCall.params.width # NaN
                      /\ genCall.params.width >= 10
                      /\ genCall.params.width <= 1250
                      /\ genCall.params.material
                           \in DOMAIN constraints.panel.thickness
                      /\ genCall.params.thickness \in
                           Elements(constraints.panel.thickness[
                                        genCall.params.material])))


\* ====================================================================
\* Properties of CSGManager.applyCuts (checked under Spec)
\* ====================================================================
\* The entries of the list with a recognized type, as their indices.
RecognizedIndices(cuts) ==
    {k \in 1..Len(cuts) :
        "type" \in DOMAIN cuts[k]
        /\ cuts[k].type \in {"circular", "rectangular"}}

UnrecognizedIndices(cuts) == (1..Len(cuts)) \ RecognizedIndices(cuts)

\* The k-th smallest element of a finite set of numbers.
RECURSIVE Nth(_, _)
Nth(S, k) ==
    LET m == CHOOSE x \in S : \A y \in S : x <= y
    IN IF k = 1 THEN m ELSE Nth(S \ {m}, k - 1)

\* The brush the panel starts as: the raw panel geometry with the colour of
\* the panel's material, before any subtraction.
RawPanelBrush ==
    [geometry |-> createPanelGeometry(config.panel).geometry,
     color |-> mainBrush.color, castShadow |-> FALSE, receiveShadow |-> FALSE]

\* The entries the loop has dealt with: all those before cutIndex, and the
\* entry at cutIndex too when its subtraction was the one that threw.
Handled ==
    {k \in 1..Len(config.cuts) :
        \/ k < cutIndex
        \/ (k = cutIndex /\ pc = "failed" /\ evaluations # <<>>
                         /\ evaluations[Len(evaluations)].index = k)}

\* The subtractions made so far are exactly the recognized entries handled
\* so far, once each and in list order; the first takes the raw panel as
\* its left operand and each later one the result of the one before; the
\* accumulator is the result of the last one that returned.
SubtractionsAreTheRecognizedEntries ==
    LET done == RecognizedIndices(config.cuts) \cap Handled
    IN /\ Len(evaluations) = Cardinality(done)
       /\ \A k \in 1..Len(evaluations) :
            /\ evaluations[k].index = Nth(done, k)
            /\ evaluations[k].b.geometry =
                 (IF config.cuts[evaluations[k].index].type = "circular"
                  THEN createCylinderGeometryForHole(
                           config.cuts[evaluations[k].index].params).geometry
                  ELSE createBoxGeometryForRectangularCut(
                           config.cuts[evaluations[k].index].params).geometry)
            /\ evaluations[k].a =
                 (IF k = 1 THEN RawPanelBrush
                  ELSE Subtraction(evaluations[k - 1].a, evaluations[k - 1].b))
       /\ (pc = "loop" /\ evaluations # <<>>) =>
             mainBrush = Subtraction(evaluations[Len(evaluations)].a,
                                     evaluations[Len(evaluations)].b)

\* C1: an entry whose type is neither 'circular' nor 'rectangular' does not
\* abort the evaluation: the step that handles it moves on to the next
\* entry, the mesh is returned only once the whole list was walked, and at
\* every moment the subtractions made are exactly the recognized entries
\* handled so far, each once, in list order, each on the previous result.
C1_UnrecognizedDoesNotAbort ==
    /\ [](pc \in {"loop", "done", "failed"}
            => SubtractionsAreTheRecognizedEntries)
    /\ [](pc = "done" => cutIndex = Len(config.cuts) + 1)
    /\ [][(InLoopBody /\ ~Recognized(CurrentCut))
            => (pc' = "loop" /\ cutIndex' = cutIndex + 1)]_vars

\* C1 witness: a list with an unrecognized entry between two recognized
\* ones was evaluated to the end, with two subtractions made.
C1_Witness ==
    /\ pc = "done"
    /\ Len(config.cuts) = 3
    /\ RecognizedIndices(config.cuts) = {1, 3}
    /\ Len(evaluations) = 2
    /\ evaluations[2].index = 3

\* The mesh applyCuts returns for the panel alone: the raw panel geometry,
\* the panel's colour, shadows cast and received.
ZeroCutPanel ==
    [geometry |-> createPanelGeometry(config.panel).geometry,
     color |-> SelectedMaterialColor(IF "material" \in DOMAIN config.panel
                                     THEN config.panel.material
                                     ELSE "undefined"),
     castShadow |-> TRUE, receiveShadow |-> TRUE]

\* C2: an unrecognized entry contributes nothing: the step that handles it
\* leaves the accumulator and the list of subtractions as they are and logs
\* exactly one diagnostic; a list of unrecognized entries only (with or
\* without params) never fails and returns the zero-cut panel.
C2_UnrecognizedContributesNothing ==
    /\ [][(InLoopBody /\ ~Recognized(CurrentCut))
            => (/\ mainBrush' = mainBrush
                /\ evaluations' = evaluations
                /\ Len(console') = Len(console) + 1
                /\ pc' # "failed")]_vars
    /\ []((pc \in {"loop", "done", "failed"}
           /\ RecognizedIndices(config.cuts) = {})
            => (/\ pc # "failed"
                /\ evaluations = <<>>
                /\ pc = "done" => mainBrush = ZeroCutPanel))

\* C2 witness: the list [{kind: 'unknown_kind'}] (no type, no params) was
\* evaluated to the end with one diagnostic logged.
C2_Witness ==
    /\ pc = "done"
    /\ config.cuts = <<[kind |-> "unknown_kind"]>>
    /\ console = <<"Type de decoupe non reconnu: undefined">>
    /\ mainBrush = ZeroCutPanel

\* C3: with an empty cut list applyCuts makes no subtraction and returns a
\* solid whose geometry is the raw solid of createPanelGeometry for the
\* panel.
C3_EmptyListReturnsRawPanel ==
    (pc = "done" /\ config.cuts = <<>>)
        => (/\ evaluations = <<>>
            /\ ~createPanelGeometry(config.panel).threw
            /\ mainBrush.geometry = createPanelGeometry(config.panel).geometry)

\* C3 witness: an evaluation of an empty list has returned, for a panel
\* other than the default configuration's.
C3_Witness ==
    /\ pc = "done"
    /\ config.cuts = <<>>
    /\ config.panel # defaultConfig.panel
    /\ mainBrush.geometry.type = "BoxGeometry"

\* The value the cut specification gives for axis a of record f (position
\* or rotation): 0 when the record or the axis is omitted.
SpecifiedAxis(cut, f, a) ==
    IF f \in DOMAIN cut
    THEN (IF a \in DOMAIN cut[f] THEN cut[f][a] ELSE 0)
    ELSE 0

SpecifiedPlacement(cut, f) ==
    <<SpecifiedAxis(cut, f, "x"), SpecifiedAxis(cut, f, "y"),
      SpecifiedAxis(cut, f, "z")>>

\* C14: the cut solid of every subtraction is, at the moment it is handed
\* to the boolean routine, at the position (x, y, z) and the Euler rotation
\* (x, y, z) of its cut specification, an omitted record counting as zeros
\* and an omitted axis as 0.
C14_CutPlacement ==
    \A k \in 1..Len(evaluations) :
        /\ evaluations[k].b.position =
             SpecifiedPlacement(config.cuts[evaluations[k].index], "position")
        /\ evaluations[k].b.rotation =
             SpecifiedPlacement(config.cuts[evaluations[k].index], "rotation")

\* C14 witness: a cut with position {x: 200} and rotation {y: 1} was
\* subtracted at (200, 0, 0) with rotation (0, 1, 0), and a cut with no
\* position and rotation (1, 2, 3) at the origin, in one evaluation.
C14_Witness ==
    /\ pc = "done"
    /\ \E k \in 1..Len(evaluations) :
         /\ "position" \in DOMAIN config.cuts[evaluations[k].index]
         /\ config.cuts[evaluations[k].index].position = [x |-> 200]
         /\ evaluations[k].b.position = <<200, 0, 0>>
         /\ evaluations[k].b.rotation = <<0, 1, 0>>
    /\ \E k \in 1..Len(evaluations) :
         /\ "position" \notin DOMAIN config.cuts[evaluations[k].index]
         /\ evaluations[k].b.position = <<0, 0, 0>>
         /\ evaluations[k].b.rotation = <<1, 2, 3>>

\* C15 as stated: the panel material has the colour of the id's entry when
\* the id is an entry of the material table, and the colour of the entry
\* 'pine' for every id that is not.
C15_AsClaimed ==
    (pc \in {"loop", "done"} /\ "material" \in DOMAIN config.panel)
        => mainBrush.color =
             (IF config.panel.material \in DOMAIN materials
              THEN materials[config.panel.material]
              ELSE materials.pine)


\* C23: applyCuts only reads its configuration: between its entry and its
\* return or its failure no step changes the panel record or the cut list;
\* and no evaluator state passes from one invocation to the next: a call starts
\* with no subtraction made and with the raw panel of its own argument as
\* the accumulator.
C23_ConfigReadOnly ==
    /\ [][(pc # "idle" /\ pc' # "idle") => config' = config]_vars
    /\ [][(pc = "idle" /\ pc' # "idle")
            => /\ evaluations' = <<>>
               /\ cutIndex' = 1
               /\ normalsCalls' = 0
               /\ mainBrush' =
                    PanelBrush(createPanelGeometry(config'.panel).geometry,
                               mainBrush'.color)]_vars

\* C23 witness: a call that failed at its second subtraction, after an
\* unrecognized entry and a placed cut were handled, with the list it was
\* given still of three entries.
C23_Witness ==
    /\ pc = "failed"
    /\ Len(config.cuts) = 3
    /\ Len(evaluations) = 2
    /\ UnrecognizedIndices(config.cuts) # {}
    /\ \E k \in RecognizedIndices(config.cuts) : Has(config.cuts[k], "position")

\* The geometries that applyCuts has called dispose() on: lines 28-83 hold
\* no call of dispose, on a geometry, a material or a brush.
DisposedByApplyCuts == {}

\* C24 as stated: when applyCuts returns, the geometry of every cut brush it
\* made and of every accumulator that a later subtraction superseded has
\* been disposed.
C24_AsClaimed ==
    pc = "done" =>
        \A k \in 1..Len(evaluations) :
            /\ evaluations[k].b.geometry \in DisposedByApplyCuts
            /\ evaluations[k].a.geometry \in DisposedByApplyCuts

\* C25: in an evaluation the normals are recomputed exactly once, after the
\* last entry of the list was processed and on the final accumulator: none
\* while the loop runs (so none between two subtractions), one when the
\* mesh has been returned, and the step that recomputes them comes with the
\* whole list walked and leaves the geometry and the subtractions as they
\* are.  (An evaluation that an exception ends has recomputed none.)
C25_NormalsOnce ==
    /\ [](pc = "loop" => normalsCalls = 0)
    /\ [](pc = "failed" => normalsCalls = 0)
    /\ [](pc = "done" => normalsCalls = 1)
    /\ [][normalsCalls' > normalsCalls
            => /\ pc = "loop" /\ pc' = "done"
               /\ cutIndex > Len(config.cuts)
               /\ mainBrush'.geometry = mainBrush.geometry
               /\ evaluations' = evaluations]_vars

\* C25 witness: a list of three recognized cuts was evaluated to the end,
\* with three subtractions and one recomputation of the normals.
C25_Witness ==
    /\ pc = "done"
    /\ Len(evaluations) = 3
    /\ normalsCalls = 1

C17_AsClaimed ==
    (pc = "idle" /\ event # "load")
        => (/\ Cardinality(scene) = 1
            /\ currentPanelMesh \in scene
            /\ ~meshes[currentPanelMesh].disposed)

\* The handlers of the panel form that start an evaluation.
UIHandlers == {"update", "enter", "material", "thickness"}

\* C19: while an evaluation started by a handler of the form is under way,
\* the panel being evaluated is the one validatePanelDimensions was called
\* on and accepted; and a handler whose validation fails starts no
\* evaluation, leaves the display alone, and leaves in the four fields the
\* values of the stored configuration.
C19_EvaluationOnlyAfterValidation ==
    /\ []((pc # "idle" /\ event \in UIHandlers)
            => (/\ validation # NoCall
                /\ validation.isValid
                /\ validation.fields = config.panel
                /\ validatePanelDimensions(
                       config.panel.length, config.panel.width,
                       config.panel.thickness, config.panel.material).isValid))
    /\ [][(pc = "idle" /\ event' \in UIHandlers /\ validation' # NoCall
                       /\ ~validation'.isValid)
            => (/\ pc' = "idle"
                /\ UNCHANGED <<scene, currentPanelMesh, meshes, evaluations>>
                /\ inputs'.length = appConfig'.panel.length
                /\ inputs'.width = appConfig'.panel.width
                /\ inputs'.thickness = appConfig'.panel.thickness
                /\ inputs'.material = appConfig'.panel.material)]_vars

\* C19 witness: a change of material was rejected (the length typed is out
\* of range) and the fields show the stored values again.
C19_Witness ==
    /\ pc = "idle"
    /\ event = "material"
    /\ validation # NoCall
    /\ ~validation.isValid
    /\ validation.fields.material # appConfig.panel.material
    /\ inputs.material = appConfig.panel.material
    /\ inputs.length = appConfig.panel.length
    /\ validation.fields.length # appConfig.panel.length

\* C26 as stated: whatever events the form has handled, the stored
\* thickness is one of the thicknesses of the stored material.
C26_AsClaimed ==
    appConfig.panel.thickness
        \in Elements(AvailableThicknesses(appConfig.panel.material))

\* C29 as stated: when init has run initThreeJS, the controls object that
\* main.ts holds and that the view cube was handed is the current controls
\* object of cameraManager.js, it is not disposed, and its distance limits
\* and its target are those computed for the panel that initThreeJS saw.
C29_AsClaimed ==
    event = "init" =>
        /\ controls # Null
        /\ mainControls = controls
        /\ controls = cameraManager.controls
        /\ ~orbitControls[controls].disposed
        /\ orbitControls[controls].minDistance =
             calculateOptimalCameraSettings(defaultConfig.panel).minDistance
        /\ orbitControls[controls].maxDistance =
             calculateOptimalCameraSettings(defaultConfig.panel).maxDistance
        /\ orbitControls[controls].target = defaultConfig.panel.thickness

\* ====================================================================
\* Properties of the circular-cut modal (checked under SpecModal)
\* ====================================================================
\* The smaller lateral dimension of the stored panel, in tenths of a mm.
SmallerLateral ==
    IF appConfig.panel.length <= appConfig.panel.width
    THEN Tenths(appConfig.panel.length) ELSE Tenths(appConfig.panel.width)

\* C20 as stated: Apply rejects, leaving the modal open, every cut whose
\* depth exceeds the thickness of the panel and every cut whose radius
\* exceeds the smaller lateral dimension of the panel.
C20_AsClaimed ==
    [][(Ready /\ modalActive /\ event' = "apply"
        /\ (\/ GreaterThan(cutInputs.depth, Tenths(appConfig.panel.thickness))
            \/ GreaterThan(cutInputs.diameter, 2 * SmallerLateral)))
          => modalActive']_vars

\* C21 as stated: an Apply whose parameters pass the validation appends a
\* circular cut to the cut list of the stored configuration, and the panel
\* is evaluated again with it.
C21_AsClaimed ==
    [][(Ready /\ modalActive /\ event' = "apply"
        /\ validateCircularCutParameters(cutInputs.diameter,
                                         cutInputs.depth).isValid)
          => /\ Len(appConfig'.cuts) = Len(appConfig.cuts) + 1
             /\ appConfig'.cuts[Len(appConfig'.cuts)].type = "circular"
             /\ pc' = "loop"]_vars

\* ====================================================================
\* Properties of successive calls of applyCuts (checked under SpecOrder)
\* ====================================================================
\* The brush that the loop makes of entry k of the list being evaluated.
BrushOf(k) == CutBrush(config.cuts[k], CutGeometry(config.cuts[k]).geometry)

\* The call that has returned had a list of two recognized cuts that do not
\* overlap, and the call that returned before it had the same panel and the
\* same two cuts in the other order.
ReturnedForReversedList ==
    /\ pc = "done"
    /\ Len(config.cuts) = 2
    /\ \A k \in 1..2 : Recognized(config.cuts[k])
    /\ ~Overlapping(BrushOf(1), BrushOf(2))
    /\ returned # NoCall
    /\ returned.config.panel = config.panel
    /\ returned.config.cuts = <<config.cuts[2], config.cuts[1]>>

C27_AsClaimed ==
    /\ ~modalActive => /\ ~modalView.modalScene
                       /\ ~modalView.modalRenderer
                       /\ ~modalView.modalControls
                       /\ ~modalView.modalCutMesh
    /\ renderers <= 1

\* C28 as stated: the main scene holds at most one axes helper and at most
\* one set of axis labels, and an axes object leaves the scene it was added
\* to before it is replaced or dropped: the main scene holds no axes helper
\* and no labels other than those the variables of axesHelper.js refer to.
C28_AsClaimed ==
    /\ sceneChildren.axes <= 1
    /\ sceneChildren.labels <= 1
    /\ sceneChildren.axes = (IF axesHelper = "scene" THEN 1 ELSE 0)
    /\ sceneChildren.labels = (IF axisLabels = "scene" THEN 1 ELSE 0)

============================================================================
